---- MODULE Spec2Model ----
(***************************************************************************)
(* A model of the crypto knowledge base: the fact extractor                *)
(* (knowledge/fact_extractor.py), the vector store (knowledge/             *)
(* embed_store.py), the retriever (rag_pipeline/retriever.py), the        *)
(* update scheduler (knowledge/update_scheduler.py) and the market data    *)
(* fetcher (data_ingestion/fetch_prices.py).                               *)
(*                                                                         *)
(* Numbers.  Python floats are modelled in fixed point: a real x is the    *)
(* integer 1000*x (thousandths).  current_price and price_change_24h are   *)
(* thousandths of a dollar, price_change_percentage_24h thousandths of a   *)
(* percent.  market_cap is counted in millions of dollars and volume_24h   *)
(* in thousands of dollars, so that market_cap / 1e9 and volume / 1e6 are  *)
(* again thousandths (of a billion, of a million).  TLC cannot compare a    *)
(* number with a string, so Python's None in a numeric field is the        *)
(* integer None, smaller than every number of the model, and None in a     *)
(* string field is the string NoneStr.  Distances and similarities are     *)
(* tenths (DistScale).                                                     *)
(***************************************************************************)
EXTENDS Integers, Sequences, FiniteSets, TLC

VARIABLES
    crypto_data,  \* the batch of CryptoData records handed to extract_facts
    extracted,    \* outcome of the last extract_facts call
    collection,   \* the ChromaDB collection: fact id -> stored entry
    last,         \* the last store / retriever call and what its caller saw
    alive,        \* whether the collection self.collection refers to exists
    scheduler,    \* the BackgroundScheduler: its jobs and whether it runs
    start_pc,     \* how far start() has come in its caller's thread
    runs,         \* per thread, its execution of update_knowledge_base
    now,          \* the clock: how many snapshots have been fetched
    fetch         \* the CoinGeckoFetcher call in progress and its outcome

schedVars == <<scheduler, start_pc, runs, now>>

vars ==
    <<crypto_data, extracted, collection, last, alive, scheduler, start_pc, runs, now, fetch>>

None == -(2^30)

NoneStr == "None"

----------------------------------------------------------------------------
(* Bounds of the model *)

MaxBatch == 2     \* longest batch handed to extract_facts
MaxK == 2         \* largest max_facts / n_results a caller passes
MaxFetches == 2   \* snapshots the market API delivers
MaxCoins == 2     \* most coins in one response of the market API

----------------------------------------------------------------------------
(* Python number formatting *)

Abs(x) == IF x < 0 THEN -x ELSE x

Min(a, b) == IF a < b THEN a ELSE b

Digits2(n) == IF n < 10 THEN "0" \o ToString(n) ELSE ToString(n)

Digits3(n) == IF n < 10 THEN "00" \o ToString(n)
              ELSE IF n < 100 THEN "0" \o ToString(n) ELSE ToString(n)

\* thousandths -> hundredths, to the nearest (the sample amounts avoid ties)
RoundHundredths(m) == (m + 5) \div 10

RECURSIVE GroupThousands(_)
GroupThousands(n) ==
    IF n < 1000 THEN ToString(n)
    ELSE GroupThousands(n \div 1000) \o "," \o Digits3(n % 1000)

\* f"{x:.2f}"
Fmt2f(m) ==
    LET h == RoundHundredths(Abs(m))
    IN  (IF m < 0 THEN "-" ELSE "") \o ToString(h \div 100) \o "." \o Digits2(h % 100)

\* f"{x:,.2f}"
FmtComma2f(m) ==
    LET h == RoundHundredths(Abs(m))
    IN  (IF m < 0 THEN "-" ELSE "") \o GroupThousands(h \div 100) \o "." \o Digits2(h % 100)

\* f"{x}" of an int or of None
FmtInt(x) == IF x = None THEN "None" ELSE ToString(x)

----------------------------------------------------------------------------
(* CryptoData records *)

CryptoData(id, symbol, name, price, cap, rank, chg, pct, vol, ts) ==
    [id |-> id, symbol |-> symbol, name |-> name, current_price |-> price,
     market_cap |-> cap, market_cap_rank |-> rank, price_change_24h |-> chg,
     price_change_percentage_24h |-> pct, volume_24h |-> vol,
     timestamp |-> ts, source |-> "coingecko"]

T1 == "2026-01-01T00:00:00.123456+00:00"
T2 == "2026-01-01T00:05:00.654321+00:00"

Prices == {-1500, 0, 50000000}       \* -$1.50, $0, $50,000.00
Pcts == {-2500, 0, 2500}             \* -2.5 %, 0, +2.5 %
Caps == {-5, 0, 950000}              \* $950.00 billion
Vols == {0, 25000000}                \* $25,000.00 million

ChangeOf(pct) == IF pct < 0 THEN -1200000 ELSE 1200000

Btc(price, cap, pct, vol, ts) ==
    CryptoData("bitcoin", "BTC", "Bitcoin", price, cap, 1, ChangeOf(pct), pct, vol, ts)

Eth(price, cap, pct, vol, ts) ==
    CryptoData("ethereum", "ETH", "Ethereum", price, cap, 2, ChangeOf(pct), pct, vol, ts)

\* another coin listed under the symbol BTC (the API's symbols are not unique)
AltBtc(price, cap, pct, vol, ts) ==
    CryptoData("bitcoin-token", "BTC", "Bitcoin Token", price, cap, 40, ChangeOf(pct), pct,
               vol, ts)

\* records as fetch_top_cryptocurrencies builds them: every number present
WellFormed ==
    {Btc(p, cap, pct, vol, T1) : p \in Prices, cap \in Caps, pct \in Pcts, vol \in Vols}
    \cup {Eth(3000000, 0, 0, 0, T1), Eth(3000000, 360000, -2500, 0, T1),
          Btc(50000000, 0, 0, 0, T2), Btc(51000000, 950000, 2500, 25000000, T2),
          AltBtc(50000000, 0, 2500, 25000000, T1)}

\* records a caller builds with a null numeric field (the dataclass checks nothing)
Malformed ==
    LET b == Btc(50000000, 950000, 2500, 25000000, T1)
    IN  {[b EXCEPT !.current_price = None],
         [b EXCEPT !.price_change_percentage_24h = None],
         [b EXCEPT !.price_change_24h = None],
         [b EXCEPT !.market_cap = None],
         [b EXCEPT !.volume_24h = None],
         [b EXCEPT !.market_cap_rank = None]}

Records == WellFormed \cup Malformed

Batches == UNION {[1..n -> Records] : n \in 0..MaxBatch}

----------------------------------------------------------------------------
(* CryptoFactExtractor.  Each _extract_* helper yields                     *)
(* [raised |-> BOOLEAN, facts |-> sequence of CryptoFact]: raised is the   *)
(* TypeError Python throws when None is formatted with a float format,     *)
(* compared with > or passed to abs().                                     *)

CryptoFact(fid, content, c, type, meta) ==
    [fact_id |-> fid, content |-> content, crypto_id |-> c.id,
     crypto_symbol |-> c.symbol, fact_type |-> type,
     timestamp |-> c.timestamp, metadata |-> meta]

Raised == [raised |-> TRUE, facts |-> <<>>]

Returned(fs) == [raised |-> FALSE, facts |-> fs]

\* mutant: the price sentence also carries the snapshot's timestamp
_extract_price_facts_dated(c) ==
    IF c.current_price = None THEN Raised
    ELSE Returned(<<CryptoFact(
            c.id \o "_price_" \o c.timestamp,
            c.name \o " (" \o c.symbol \o ") is currently trading at $"
                \o FmtComma2f(c.current_price) \o " USD at " \o c.timestamp \o ".",
            c, "price",
            [price |-> c.current_price, currency |-> "USD", source |-> c.source])>>)

_extract_price_facts(c) ==
    IF c.current_price = None THEN Raised
    ELSE Returned(<<CryptoFact(
            c.id \o "_price_" \o c.timestamp,
            c.name \o " (" \o c.symbol \o ") is currently trading at $"
                \o FmtComma2f(c.current_price) \o " USD.",
            c, "price",
            [price |-> c.current_price, currency |-> "USD", source |-> c.source])>>)

_extract_change_facts(c) ==
    LET change_pct == c.price_change_percentage_24h
        change_abs == c.price_change_24h
    IN  IF change_pct = None THEN Raised            \* None != 0, then None > 0
        ELSE IF change_pct # 0
        THEN IF change_abs = None THEN Raised       \* abs(None)
             ELSE LET direction == IF change_pct > 0 THEN "increased" ELSE "decreased"
                  IN  Returned(<<CryptoFact(
                        c.id \o "_change_" \o c.timestamp,
                        c.name \o " has " \o direction \o " by " \o Fmt2f(Abs(change_pct))
                            \o "% ($" \o Fmt2f(Abs(change_abs)) \o ") in the last 24 hours.",
                        c, "change",
                        [change_percentage |-> change_pct, change_absolute |-> change_abs,
                         direction |-> direction, timeframe |-> "24h"])>>)
        ELSE Returned(<<>>)

\* mutant: the guard written market_cap >= 0
_extract_market_facts_nonneg(c) ==
    IF c.market_cap = None THEN Raised
    ELSE IF c.market_cap >= 0
    THEN Returned(<<CryptoFact(
            c.id \o "_market_" \o c.timestamp,
            c.name \o " has a market capitalization of $" \o Fmt2f(c.market_cap)
                \o " billion USD, ranking #" \o FmtInt(c.market_cap_rank)
                \o " by market cap.",
            c, "market_cap",
            [market_cap |-> c.market_cap, market_cap_billions |-> c.market_cap,
             rank |-> c.market_cap_rank])>>)
    ELSE Returned(<<>>)

_extract_market_facts(c) ==
    IF c.market_cap = None THEN Raised              \* None > 0
    ELSE IF c.market_cap > 0
    THEN LET market_cap_billions == c.market_cap    \* millions = thousandths of a billion
         IN  Returned(<<CryptoFact(
                c.id \o "_market_" \o c.timestamp,
                c.name \o " has a market capitalization of $" \o Fmt2f(market_cap_billions)
                    \o " billion USD, ranking #" \o FmtInt(c.market_cap_rank)
                    \o " by market cap.",
                c, "market_cap",
                [market_cap |-> c.market_cap, market_cap_billions |-> market_cap_billions,
                 rank |-> c.market_cap_rank])>>)
    ELSE Returned(<<>>)

_extract_volume_facts(c) ==
    IF c.volume_24h = None THEN Raised              \* None > 0
    ELSE IF c.volume_24h > 0
    THEN LET volume_millions == c.volume_24h        \* thousands = thousandths of a million
         IN  Returned(<<CryptoFact(
                c.id \o "_volume_" \o c.timestamp,
                c.name \o " has a 24-hour trading volume of $" \o Fmt2f(volume_millions)
                    \o " million USD.",
                c, "volume",
                [volume_24h |-> c.volume_24h, volume_millions |-> volume_millions,
                 timeframe |-> "24h"])>>)
    ELSE Returned(<<>>)

\* facts.extend(helper(crypto)): an exception in the helper leaves the loop
Extend(acc, r) ==
    IF acc.raised \/ r.raised THEN Raised ELSE Returned(acc.facts \o r.facts)

ExtractRecord(acc, c) ==
    Extend(Extend(Extend(Extend(acc, _extract_price_facts(c)),
                         _extract_change_facts(c)),
                  _extract_market_facts(c)),
           _extract_volume_facts(c))

RECURSIVE ExtractLoop(_, _, _)
ExtractLoop(acc, data, i) ==
    IF i > Len(data) THEN acc
    ELSE ExtractLoop(ExtractRecord(acc, data[i]), data, i + 1)

extract_facts(data) == ExtractLoop(Returned(<<>>), data, 1)

NotCalled == [called |-> FALSE]

EmptyCollection == [i \in {} |-> NoneStr]

NoCall == [op |-> "none"]

----------------------------------------------------------------------------
(* CryptoVectorStore.  ChromaDB and the sentence-transformer model are     *)
(* external: the model keeps what the store's code relies on.  An          *)
(* embedding is a black box, so the distance of a stored fact to a query   *)
(* is any value of Distances; the index answers a query with the matching  *)
(* entries closest first.  Any backend call may fail.                      *)

DistScale == 10                      \* 1.0 in tenths

Distances == {1, 2, 3, 12}           \* 0.1, 0.2, 0.3, 1.2

Range(seq) == {seq[i] : i \in 1..Len(seq)}

HasDuplicates(ids) == \E i, j \in 1..Len(ids) : i # j /\ ids[i] = ids[j]

\* the metadata dict add_facts stores: the four fixed keys, then **fact.metadata
StoredMetadata(fact) ==
    fact.metadata @@ [crypto_id |-> fact.crypto_id, crypto_symbol |-> fact.crypto_symbol,
                      fact_type |-> fact.fact_type, timestamp |-> fact.timestamp]

\* collection.add(documents, metadatas, embeddings, ids).  add is not upsert:
\* ids repeated inside the call are refused; an id already stored is, depending
\* on the ChromaDB release, refused too (on_existing = "raise") or skipped with
\* the stored entry kept (on_existing = "ignore").  It never replaces.
ChromaAdd(coll, ids, documents, metadatas, on_existing) ==
    IF HasDuplicates(ids) \/ (on_existing = "raise" /\ Range(ids) \cap DOMAIN coll # {})
    THEN [raised |-> TRUE, coll |-> coll]
    ELSE [raised |-> FALSE,
          coll |-> [id \in DOMAIN coll \cup Range(ids) |->
                      IF id \in DOMAIN coll THEN coll[id]
                      ELSE LET i == CHOOSE j \in 1..Len(ids) : ids[j] = id
                           IN  [document |-> documents[i], metadata |-> metadatas[i]]]]

\* what the backend may do during one add_facts call
AddBackends ==
    [embed_ok : BOOLEAN, insert_ok : BOOLEAN, on_existing : {"raise", "ignore"}]

AddRaised(coll, error) ==
    [status |-> "raised", count |-> None, error |-> error, inserted |-> FALSE, coll |-> coll]

\* mutant: a backend failure is caught and the count returned all the same
add_facts_swallow(coll, facts, b) ==
    IF facts = <<>>
    THEN [status |-> "returned", count |-> 0, error |-> "none", inserted |-> FALSE,
          coll |-> coll]
    ELSE IF ~b.embed_ok \/ ~b.insert_ok
    THEN [status |-> "returned", count |-> Len(facts), error |-> "none",
          inserted |-> FALSE, coll |-> coll]
    ELSE LET n == Len(facts)
             r == ChromaAdd(coll, [i \in 1..n |-> facts[i].fact_id],
                            [i \in 1..n |-> facts[i].content],
                            [i \in 1..n |-> StoredMetadata(facts[i])], b.on_existing)
         IN  IF r.raised THEN AddRaised(coll, "DuplicateIDError")
             ELSE [status |-> "returned", count |-> Len(facts), error |-> "none",
                   inserted |-> TRUE, coll |-> r.coll]

add_facts(coll, facts, b) ==
    IF facts = <<>>
    THEN [status |-> "returned", count |-> 0, error |-> "none", inserted |-> FALSE,
          coll |-> coll]
    ELSE LET n == Len(facts)
             documents == [i \in 1..n |-> facts[i].content]
             metadatas == [i \in 1..n |-> StoredMetadata(facts[i])]
             ids == [i \in 1..n |-> facts[i].fact_id]
         IN  IF ~b.embed_ok THEN AddRaised(coll, "EmbeddingError")
             ELSE IF ~b.insert_ok THEN AddRaised(coll, "BackendError")
             ELSE LET r == ChromaAdd(coll, ids, documents, metadatas, b.on_existing)
                  IN  IF r.raised THEN AddRaised(coll, "DuplicateIDError")
                      ELSE [status |-> "returned", count |-> Len(facts), error |-> "none",
                            inserted |-> TRUE, coll |-> r.coll]

\* mutant: the filter never reaches the where clause
WhereClauseDropped(crypto_filter) == NoneStr

\* where_clause of search_facts: a falsy filter (None, "") means no filter
WhereClause(crypto_filter) ==
    IF crypto_filter \in {NoneStr, ""} THEN NoneStr ELSE crypto_filter

Matching(coll, where) ==
    {id \in DOMAIN coll : where = NoneStr \/ coll[id].metadata.crypto_symbol = where}

\* collection.query(query_embeddings, n_results, where): a failure (always, for
\* n_results <= 0), or the min(n_results, matches) closest matching entries in
\* order of increasing distance, with or without the distances column
ChromaQuery(coll, n_results, where) ==
    LET cands == Matching(coll, where)
        m == Min(n_results, Cardinality(cands))
    IN  {[fail |-> TRUE, ids |-> <<>>, distances |-> <<>>, has_distances |-> FALSE]}
        \cup
        IF n_results <= 0 THEN {}
        ELSE {[fail |-> FALSE, ids |-> s, distances |-> d, has_distances |-> TRUE] :
                 s \in {x \in [1..m -> cands] : ~HasDuplicates(x)},
                 d \in {y \in [1..m -> Distances] : \A i \in 1..(m - 1) : y[i] <= y[i + 1]}}
             \cup
             {[fail |-> FALSE, ids |-> s, distances |-> <<>>, has_distances |-> FALSE] :
                 s \in {x \in [1..m -> cands] : ~HasDuplicates(x)}}

search_facts(coll, query, n_results, crypto_filter, b) ==
    IF b.fail THEN [raised |-> TRUE, results |-> <<>>]
    ELSE [raised |-> FALSE,
          results |-> [i \in 1..Len(b.ids) |->
                         [content |-> coll[b.ids[i]].document,
                          metadata |-> coll[b.ids[i]].metadata,
                          distance |-> IF b.has_distances THEN b.distances[i] ELSE None,
                          id |-> b.ids[i]]]]

\* the metadata sample get_collection_stats asks for: limit=min(100, count)
SampleLimit == 100

\* collection.count() and collection.get(limit): a failure, or the count and
\* some limit entries of the collection
StatsBackends(coll, limit) ==
    {[fail |-> TRUE, sample |-> {}]}
    \cup {[fail |-> FALSE, sample |-> ids] :
             ids \in {x \in SUBSET DOMAIN coll : Cardinality(x) = Min(limit, Cardinality(DOMAIN coll))}}

get_collection_stats(coll, b) ==
    IF b.fail THEN [raised |-> TRUE, stats |-> [total_facts |-> None]]
    ELSE LET count == Cardinality(DOMAIN coll)
             crypto_symbols == {coll[id].metadata.crypto_symbol : id \in b.sample}
             fact_types == {coll[id].metadata.fact_type : id \in b.sample}
         IN  IF count > 0
             THEN [raised |-> FALSE,
                   stats |-> [total_facts |-> count,
                              unique_cryptos |-> Cardinality(crypto_symbols),
                              crypto_symbols |-> crypto_symbols,
                              fact_types |-> fact_types]]
             ELSE [raised |-> FALSE, stats |-> [total_facts |-> 0]]

\* what the backend may do during one clear_collection call
ClearBackends == [delete_ok : BOOLEAN, create_ok : BOOLEAN]

\* mutant: the collection is handed back as it is
clear_collection_keep(coll, live, b) ==
    IF ~live \/ ~b.delete_ok
    THEN [raised |-> TRUE, coll |-> coll, alive |-> live]
    ELSE IF ~b.create_ok
    THEN [raised |-> TRUE, coll |-> EmptyCollection, alive |-> FALSE]
    ELSE [raised |-> FALSE, coll |-> coll, alive |-> TRUE]

\* delete_collection, then create_collection: deleting a collection that does
\* not exist fails; when creating fails the old collection is gone and
\* self.collection still refers to it
clear_collection(coll, live, b) ==
    IF ~live \/ ~b.delete_ok
    THEN [raised |-> TRUE, coll |-> coll, alive |-> live]
    ELSE IF ~b.create_ok
    THEN [raised |-> TRUE, coll |-> EmptyCollection, alive |-> FALSE]
    ELSE [raised |-> FALSE, coll |-> EmptyCollection, alive |-> TRUE]

\* get_collection succeeds on a collection that exists and fails otherwise;
\* then create_collection makes an empty one
_init_chromadb(coll, live) ==
    IF live THEN [coll |-> coll, alive |-> TRUE]
    ELSE [coll |-> EmptyCollection, alive |-> TRUE]

----------------------------------------------------------------------------
(* CryptoRetriever *)

\* mutant: no over-fetch
OverFetchNone(max_facts) == max_facts

\* n_results=max_facts * 2
OverFetch(max_facts) == max_facts * 2

\* similarity = 1 - result.get('distance', 1.0): the key is always present
Similarity(result) == DistScale - result.distance

\* mutant: passing results are inserted at the front of filtered_facts
RECURSIVE FilterReversed(_, _)
FilterReversed(raw_results, relevance_threshold) ==
    IF raw_results = <<>> THEN <<>>
    ELSE LET result == Head(raw_results)
             rest == FilterReversed(Tail(raw_results), relevance_threshold)
         IN  IF Similarity(result) >= relevance_threshold
             THEN rest \o <<result @@ [similarity |-> Similarity(result)]>>
             ELSE rest

\* mutant: a passing result is appended twice
RECURSIVE FilterAppendTwice(_, _)
FilterAppendTwice(raw_results, relevance_threshold) ==
    IF raw_results = <<>> THEN <<>>
    ELSE LET result == Head(raw_results)
             rest == FilterAppendTwice(Tail(raw_results), relevance_threshold)
             kept == result @@ [similarity |-> Similarity(result)]
         IN  IF Similarity(result) >= relevance_threshold
             THEN <<kept, kept>> \o rest
             ELSE rest

\* the loop over raw_results: append, in order, every result that passes
RECURSIVE FilterByThreshold(_, _)
FilterByThreshold(raw_results, relevance_threshold) ==
    IF raw_results = <<>> THEN <<>>
    ELSE LET result == Head(raw_results)
             rest == FilterByThreshold(Tail(raw_results), relevance_threshold)
         IN  IF Similarity(result) >= relevance_threshold
             THEN <<result @@ [similarity |-> Similarity(result)]>> \o rest
             ELSE rest

\* mutant: the slice left out
TakeAll(filtered_facts, max_facts) == filtered_facts

\* filtered_facts[:max_facts]; a negative bound counts from the end
TakeTop(filtered_facts, max_facts) ==
    IF max_facts >= 0
    THEN SubSeq(filtered_facts, 1, Min(max_facts, Len(filtered_facts)))
    ELSE SubSeq(filtered_facts, 1, Len(filtered_facts) + max_facts)

\* retrieval_time, a wall-clock reading, is left out
RetrievalResult(query, facts, total_found) ==
    [query |-> query, facts |-> facts, total_found |-> total_found]

\* raw is the outcome of the search_facts call; 1 - None raises TypeError
retrieve_facts(query, max_facts, relevance_threshold, raw) ==
    IF raw.raised THEN [raised |-> TRUE]
    ELSE IF \E i \in 1..Len(raw.results) : raw.results[i].distance = None
    THEN [raised |-> TRUE]
    ELSE [raised |-> FALSE,
          result |-> RetrievalResult(
              query,
              TakeTop(FilterByThreshold(raw.results, relevance_threshold), max_facts),
              Len(raw.results))]

Get(dict, key, default) == IF key \in DOMAIN dict THEN dict[key] ELSE default

\* s[:n]
Prefix(str, n) == SubSeq(str, 1, Min(n, Len(str)))

TimestampCut == 19

NoInformation == "No relevant information found in the knowledge base."

ContextHeader == "Based on the latest cryptocurrency data, here are the relevant facts:"

\* mutant: enumerate(facts) without the start index 1
RECURSIVE ContextEntriesFromZero(_, _)
ContextEntriesFromZero(facts, i) ==
    IF i > Len(facts) THEN <<>>
    ELSE <<ToString(i - 1) \o ". " \o facts[i].content,
           "   (Source: " \o Get(facts[i].metadata, "crypto_symbol", "N/A") \o ", Time: "
               \o Prefix(Get(facts[i].metadata, "timestamp", "unknown"), TimestampCut)
               \o ")">>
         \o ContextEntriesFromZero(facts, i + 1)

RECURSIVE ContextEntries(_, _)
ContextEntries(facts, i) ==
    IF i > Len(facts) THEN <<>>
    ELSE LET metadata == facts[i].metadata
             timestamp == Get(metadata, "timestamp", "unknown")
         IN  <<ToString(i) \o ". " \o facts[i].content,
               "   (Source: " \o Get(metadata, "crypto_symbol", "N/A") \o ", Time: "
                   \o Prefix(timestamp, TimestampCut) \o ")">>
             \o ContextEntries(facts, i + 1)

\* the list context_parts, empty on the early return
ContextParts(retrieval_result) ==
    IF retrieval_result.facts = <<>> THEN <<>>
    ELSE <<ContextHeader>> \o ContextEntries(retrieval_result.facts, 1)

RECURSIVE Join(_, _)
Join(sep, parts) ==
    IF parts = <<>> THEN ""
    ELSE IF Len(parts) = 1 THEN parts[1]
    ELSE parts[1] \o sep \o Join(sep, Tail(parts))

get_context_string(retrieval_result) ==
    IF retrieval_result.facts = <<>> THEN NoInformation
    ELSE Join("\n", ContextParts(retrieval_result))

\* sub in str
Contains(str, sub) ==
    \E i \in 1..(Len(str) - Len(sub) + 1) : SubSeq(str, i, i + Len(sub) - 1) = sub

UpperCase == <<"A", "B", "C", "D", "E", "F", "G", "H", "I", "J", "K", "L", "M",
               "N", "O", "P", "Q", "R", "S", "T", "U", "V", "W", "X", "Y", "Z">>

LowerCase == <<"a", "b", "c", "d", "e", "f", "g", "h", "i", "j", "k", "l", "m",
               "n", "o", "p", "q", "r", "s", "t", "u", "v", "w", "x", "y", "z">>

LowerChar(c) ==
    IF \E i \in 1..Len(UpperCase) : UpperCase[i] = c
    THEN LowerCase[CHOOSE i \in 1..Len(UpperCase) : UpperCase[i] = c]
    ELSE c

\* mutant: the query is matched as it was typed
LowerNone(str) == str

\* str.lower() of an ASCII string
RECURSIVE Lower(_)
Lower(str) ==
    IF str = "" THEN ""
    ELSE LowerChar(SubSeq(str, 1, 1)) \o Lower(SubSeq(str, 2, Len(str)))

\* crypto_mapping, in the order of the dict
crypto_mapping ==
    << <<"bitcoin", "BTC">>, <<"btc", "BTC">>,
       <<"ethereum", "ETH">>, <<"eth", "ETH">>,
       <<"cardano", "ADA">>, <<"ada", "ADA">>,
       <<"solana", "SOL">>, <<"sol", "SOL">>,
       <<"polkadot", "DOT">>, <<"dot", "DOT">>,
       <<"chainlink", "LINK">>, <<"link", "LINK">>,
       <<"polygon", "MATIC">>, <<"matic", "MATIC">>,
       <<"avalanche", "AVAX">>, <<"avax", "AVAX">> >>

\* intent_keywords, in the order of the dict
intent_keywords ==
    << <<"price", <<"price", "cost", "value", "worth", "trading">> >>,
       <<"change", <<"change", "increase", "decrease", "up", "down", "gain", "loss">> >>,
       <<"market_cap", <<"market cap", "market capitalization", "valuation">> >>,
       <<"volume", <<"volume", "trading volume", "liquidity">> >>,
       <<"ranking", <<"rank", "ranking", "position", "top">> >> >>

comparison_words == <<"compare", "vs", "versus", "between">>

\* any(word in query_lower for word in words)
AnyIn(words, query_lower) ==
    \E i \in 1..Len(words) : Contains(query_lower, words[i])

\* the loop over crypto_mapping.items(): one symbol appended per name found
RECURSIVE MentionedCryptos(_, _)
MentionedCryptos(mapping, query_lower) ==
    IF mapping = <<>> THEN <<>>
    ELSE (IF Contains(query_lower, Head(mapping)[1]) THEN <<Head(mapping)[2]>> ELSE <<>>)
         \o MentionedCryptos(Tail(mapping), query_lower)

\* the loop over intent_keywords.items()
RECURSIVE DetectedIntents(_, _)
DetectedIntents(table, query_lower) ==
    IF table = <<>> THEN <<>>
    ELSE (IF AnyIn(Head(table)[2], query_lower) THEN <<Head(table)[1]>> ELSE <<>>)
         \o DetectedIntents(Tail(table), query_lower)

\* cryptos is list(set(mentioned_cryptos)): its order is not determined, so it
\* is kept as the set
analyze_query_intent(query) ==
    LET query_lower == Lower(query)
        mentioned_cryptos == MentionedCryptos(crypto_mapping, query_lower)
        detected_intents == DetectedIntents(intent_keywords, query_lower)
    IN  [cryptos |-> {mentioned_cryptos[i] : i \in 1..Len(mentioned_cryptos)},
         intents |-> detected_intents,
         is_comparison |-> AnyIn(comparison_words, query_lower),
         is_general |-> Len(mentioned_cryptos) = 0]

----------------------------------------------------------------------------
(* The extractor applied to every batch of at most MaxBatch records *)

\* a scheduler that was constructed and never started
Threads == {"main", "job"}

IdleRun ==
    [pc |-> "idle", data |-> <<>>, facts |-> <<>>, add_calls |-> 0, result |-> "none",
     prev_result |-> "none"]

\* a fetcher that was constructed and not called
IdleFetch == [pc |-> "idle"]

NotStarted ==
    /\ scheduler = [jobs |-> {}, running |-> FALSE]
    /\ start_pc = "not_called"
    /\ runs = [t \in Threads |-> IdleRun]
    /\ now = 0
    /\ fetch = IdleFetch

InitExtract ==
    /\ crypto_data \in Batches
    /\ extracted = NotCalled
    /\ collection = EmptyCollection
    /\ last = NoCall
    /\ alive = TRUE
    /\ NotStarted

ExtractFacts ==
    /\ ~extracted.called
    /\ LET r == extract_facts(crypto_data)
       IN  extracted' = [called |-> TRUE, raised |-> r.raised, facts |-> r.facts]
    /\ UNCHANGED <<fetch, crypto_data, collection, last, alive, schedVars>>

NextExtract == ExtractFacts

SpecExtract == InitExtract /\ [][NextExtract]_vars

----------------------------------------------------------------------------
(* The store and the retriever called one after the other, in any order;   *)
(* last holds the outcome of a call until the caller discards it.  Facts   *)
(* reach the store                                                         *)
(* as extract_facts makes them, from batches of the sample snapshots:      *)
(* S1 and S2 are the same coin at the same timestamp with another price    *)
(* (one fact id, two contents).                                            *)

S1 == Btc(50000000, 0, 0, 0, T1)
S2 == Btc(51000000, 0, 0, 0, T1)
S3 == Eth(3000000, 0, -2500, 0, T1)
S4 == Btc(50000000, 950000, 0, 0, T2)

StoreRecords == {S1, S2, S3, S4}

FactBatches ==
    {extract_facts(b).facts : b \in UNION {[1..n -> StoreRecords] : n \in 0..MaxBatch}}

Queries == {"What is Bitcoin's price?"}

Filters == {NoneStr, "BTC"}

Thresholds == {-3, 0, 8, 11}         \* -0.3, 0.0, 0.8 (the default), 1.1

\* queries handed to analyze_query_intent
IntentQueries ==
    {"Compare Bitcoin and Ethereum market caps",
     "compare bitcoin and ethereum market caps",
     "COMPARE BITCOIN AND ETHEREUM MARKET CAPS",
     "How's the weather",
     "What is Bitcoin's price?",
     "BTC vs ETH",
     "Is Solana UP or down today?",
     "Top ranking coins by Trading Volume",
     "Something about Canada",
     "Polkadot",
     "Chainlink, LINK, Polygon, Avalanche or Cardano: which position?",
     ""}

Init ==
    /\ crypto_data = <<>>
    /\ extracted = NotCalled
    /\ collection = EmptyCollection
    /\ last = NoCall
    /\ alive = TRUE
    /\ NotStarted

AddFacts ==
    /\ last = NoCall
    /\ \E facts \in FactBatches, b \in AddBackends :
        LET r == add_facts(collection, facts, b)
        IN  /\ alive \/ ~b.insert_ok
            /\ collection' = r.coll
            /\ last' = [op |-> "add_facts", facts |-> facts, backend |-> b,
                        stored_before |-> collection, status |-> r.status,
                        count |-> r.count, error |-> r.error, inserted |-> r.inserted]
            /\ UNCHANGED <<fetch, crypto_data, extracted, alive, schedVars>>

SearchFacts ==
    /\ last = NoCall
    /\ \E query \in Queries, n_results \in 0..MaxK, crypto_filter \in Filters :
        \E b \in ChromaQuery(collection, n_results, WhereClause(crypto_filter)) :
            LET r == search_facts(collection, query, n_results, crypto_filter, b)
            IN  /\ alive \/ b.fail
                /\ last' = [op |-> "search_facts", query |-> query,
                            n_results |-> n_results, crypto_filter |-> crypto_filter,
                            backend_failed |-> b.fail,
                            status |-> IF r.raised THEN "raised" ELSE "returned",
                            results |-> r.results]
                /\ UNCHANGED <<fetch, crypto_data, extracted, collection, alive, schedVars>>

RetrieveFacts ==
    /\ last = NoCall
    /\ \E query \in Queries, max_facts \in -1..MaxK, crypto_filter \in Filters,
          relevance_threshold \in Thresholds :
        LET n_results == OverFetch(max_facts)
        IN  \E b \in ChromaQuery(collection, n_results, WhereClause(crypto_filter)) :
                LET raw == search_facts(collection, query, n_results, crypto_filter, b)
                    r == retrieve_facts(query, max_facts, relevance_threshold, raw)
                IN  /\ alive \/ b.fail
                    /\ last' = [op |-> "retrieve_facts", query |-> query,
                                max_facts |-> max_facts, crypto_filter |-> crypto_filter,
                                relevance_threshold |-> relevance_threshold,
                                n_results |-> n_results, backend_failed |-> b.fail,
                                raw_results |-> raw.results,
                                status |-> IF r.raised THEN "raised" ELSE "returned",
                                result |-> IF r.raised THEN RetrievalResult(query, <<>>, 0)
                                           ELSE r.result]
                    /\ UNCHANGED <<fetch, crypto_data, extracted, collection, alive, schedVars>>

\* get_context_string applied to the result retrieve_facts just returned
GetContextString ==
    /\ last.op = "retrieve_facts"
    /\ last.status = "returned"
    /\ last' = [op |-> "get_context_string", retrieval_result |-> last.result,
                context_parts |-> ContextParts(last.result),
                context |-> get_context_string(last.result)]
    /\ UNCHANGED <<fetch, crypto_data, extracted, collection, alive, schedVars>>

AnalyzeQueryIntent ==
    /\ last = NoCall
    /\ \E query \in IntentQueries :
        last' = [op |-> "analyze_query_intent", query |-> query,
                 result |-> analyze_query_intent(query)]
    /\ UNCHANGED <<fetch, crypto_data, extracted, collection, alive, schedVars>>

GetCollectionStats ==
    /\ last = NoCall
    /\ \E b \in StatsBackends(collection, SampleLimit) :
        LET r == get_collection_stats(collection, b)
        IN  /\ alive \/ b.fail
            /\ last' = [op |-> "get_collection_stats", backend_failed |-> b.fail,
                        status |-> IF r.raised THEN "raised" ELSE "returned",
                        stats |-> r.stats]
            /\ UNCHANGED <<fetch, crypto_data, extracted, collection, alive, schedVars>>

ClearCollection ==
    /\ last = NoCall
    /\ \E b \in ClearBackends :
        LET r == clear_collection(collection, alive, b)
        IN  /\ collection' = r.coll
            /\ alive' = r.alive
            /\ last' = [op |-> "clear_collection", backend |-> b,
                        stored_before |-> collection,
                        status |-> IF r.raised THEN "raised" ELSE "returned"]
            /\ UNCHANGED <<fetch, crypto_data, extracted, schedVars>>

\* a new CryptoVectorStore is constructed on the same database directory
InitChromadb ==
    /\ last = NoCall
    /\ LET r == _init_chromadb(collection, alive)
       IN  /\ collection' = r.coll
           /\ alive' = r.alive
    /\ last' = [op |-> "_init_chromadb", alive_before |-> alive]
    /\ UNCHANGED <<fetch, crypto_data, extracted, schedVars>>

\* the caller is done with the outcome of its last call and makes the next one
Discard ==
    /\ last # NoCall
    /\ last' = NoCall
    /\ UNCHANGED <<fetch, crypto_data, extracted, collection, alive, schedVars>>

Next ==
    \/ AddFacts
    \/ SearchFacts
    \/ RetrieveFacts
    \/ GetContextString
    \/ AnalyzeQueryIntent
    \/ GetCollectionStats
    \/ ClearCollection
    \/ InitChromadb
    \/ Discard

Spec == Init /\ [][Next]_vars

----------------------------------------------------------------------------
(* CryptoKnowledgeScheduler.  start() runs in its caller's thread ("main"): *)
(* it adds the interval job, starts the BackgroundScheduler and then calls  *)
(* update_knowledge_base itself.  The scheduler runs the job in its own     *)
(* thread ("job") whenever the interval has elapsed and no instance of the  *)
(* job is executing (APScheduler's max_instances is left at 1).  The model  *)
(* has no clock time: a tick may come at any moment after the scheduler was *)
(* started.  Every fetch stamps its snapshot with the current time, so no   *)
(* two snapshots carry the same timestamp.                                  *)

JobId == "crypto_update_job"

\* datetime.now(timezone.utc).isoformat() at the n-th fetch
Stamp(n) ==
    IF n = 1 THEN T1
    ELSE IF n = 2 THEN T2
    ELSE "2026-01-01T00:" \o Digits2(5 * (n - 1)) \o ":00.000001+00:00"

\* what fetch_top_cryptocurrencies may return at time ts: a parsed snapshot
Snapshots(ts) ==
    {<<Btc(50000000, 0, 0, 0, ts)>>,
     <<Btc(51000000, 950000, 2500, 25000000, ts), Eth(3000000, 0, -2500, 0, ts)>>}

\* a run of update_knowledge_base begins
BeginRun(run) ==
    [pc |-> "fetch", data |-> <<>>, facts |-> <<>>, add_calls |-> 0, result |-> "running",
     prev_result |-> run.result]

\* the run is over: update_knowledge_base returns None
EndRun(run, result) ==
    [run EXCEPT !.pc = "idle", !.data = <<>>, !.facts = <<>>, !.result = result]

\* mutant: the exception leaves update_knowledge_base
HandleExceptionReraise(run) == EndRun(run, "raised")

\* except Exception as e: logger.error(...)
HandleException(run) == EndRun(run, "error_logged")

\* scheduler.add_job(..., id='crypto_update_job', replace_existing=True)
StartAddJob ==
    /\ start_pc = "not_called"
    /\ scheduler' = [scheduler EXCEPT !.jobs = @ \cup {JobId}]
    /\ start_pc' = "job_added"
    /\ UNCHANGED <<fetch, crypto_data, extracted, collection, last, alive, runs, now>>

\* scheduler.start() (and the atexit registration)
StartScheduler ==
    /\ start_pc = "job_added"
    /\ scheduler' = [scheduler EXCEPT !.running = TRUE]
    /\ start_pc' = "scheduler_started"
    /\ UNCHANGED <<fetch, crypto_data, extracted, collection, last, alive, runs, now>>

\* self.update_knowledge_base() called by start()
StartInitialUpdate ==
    /\ start_pc = "scheduler_started"
    /\ runs' = [runs EXCEPT !["main"] = BeginRun(@)]
    /\ start_pc' = "initial_update"
    /\ UNCHANGED <<fetch, crypto_data, extracted, collection, last, alive, scheduler, now>>

\* the interval elapsed: the scheduler runs the job unless an instance of it
\* is still executing
Tick ==
    /\ scheduler.running
    /\ JobId \in scheduler.jobs
    /\ runs["job"].pc = "idle"
    /\ runs' = [runs EXCEPT !["job"] = BeginRun(@)]
    /\ UNCHANGED <<fetch, crypto_data, extracted, collection, last, alive, scheduler, start_pc, now>>

\* start() returns when its update_knowledge_base call is over
StartPcAfter(t, run) ==
    IF t = "main" /\ run.pc = "idle"
    THEN (IF run.result = "raised" THEN "raised" ELSE "returned")
    ELSE start_pc

\* crypto_data = self.fetcher.fetch_top_cryptocurrencies(); if not crypto_data: return
Fetch(t) ==
    /\ runs[t].pc = "fetch"
    /\ \/ /\ now < MaxFetches
          /\ now' = now + 1
          /\ \E data \in Snapshots(Stamp(now + 1)) :
                runs' = [runs EXCEPT ![t] = [@ EXCEPT !.pc = "extract", !.data = data]]
          /\ UNCHANGED start_pc
       \/ /\ \E run \in {EndRun(runs[t], "no_data"), HandleException(runs[t])} :
                /\ runs' = [runs EXCEPT ![t] = run]
                /\ start_pc' = StartPcAfter(t, run)
          /\ UNCHANGED now
    /\ UNCHANGED <<fetch, crypto_data, extracted, collection, last, alive, scheduler>>

\* facts = self.extractor.extract_facts(crypto_data)
Extract(t) ==
    /\ runs[t].pc = "extract"
    /\ LET r == extract_facts(runs[t].data)
           run == IF r.raised THEN HandleException(runs[t])
                  ELSE [runs[t] EXCEPT !.pc = "store", !.facts = r.facts]
       IN  /\ runs' = [runs EXCEPT ![t] = run]
           /\ start_pc' = StartPcAfter(t, run)
    /\ UNCHANGED <<fetch, crypto_data, extracted, collection, last, alive, scheduler, now>>

\* added_count = self.vector_store.add_facts(facts)
Store(t) ==
    /\ runs[t].pc = "store"
    /\ \E b \in AddBackends :
        LET r == add_facts(collection, runs[t].facts, b)
            called == [runs[t] EXCEPT !.add_calls = @ + 1]
            run == IF r.status = "raised" THEN HandleException(called)
                   ELSE EndRun(called, "completed")
        IN  /\ alive \/ ~b.insert_ok
            /\ collection' = r.coll
            /\ runs' = [runs EXCEPT ![t] = run]
            /\ start_pc' = StartPcAfter(t, run)
    /\ UNCHANGED <<fetch, crypto_data, extracted, last, alive, scheduler, now>>

\* stop(): self.scheduler.shutdown(); a job that is executing runs to its end
Stop ==
    /\ start_pc = "returned"
    /\ scheduler.running
    /\ scheduler' = [scheduler EXCEPT !.running = FALSE]
    /\ UNCHANGED <<fetch, crypto_data, extracted, collection, last, alive, start_pc, runs, now>>

NextSched ==
    \/ StartAddJob
    \/ StartScheduler
    \/ StartInitialUpdate
    \/ Tick
    \/ \E t \in Threads : Fetch(t)
    \/ \E t \in Threads : Extract(t)
    \/ \E t \in Threads : Store(t)
    \/ Stop

SpecSched == Init /\ [][NextSched]_vars

----------------------------------------------------------------------------
(* CoinGeckoFetcher.  The market API is external: an HTTP attempt ends in   *)
(* one of Responses.  response.json() of a 200 response whose body is not   *)
(* JSON raises; whether that exception is a RequestException (caught by     *)
(* _make_request) or a plain ValueError (not caught) depends on the         *)
(* release of the requests library, so either may happen (json_caught).     *)
(* A coin of a response is a record of the keys the API sent: a key may be  *)
(* absent, and a numeric value may be null (None).  waits holds, for each   *)
(* attempt made, the seconds slept after it (0: no sleep).                  *)

MAX_RETRIES == 3

RETRY_DELAY == 2

UpperChar(c) ==
    IF \E i \in 1..Len(LowerCase) : LowerCase[i] = c
    THEN UpperCase[CHOOSE i \in 1..Len(LowerCase) : LowerCase[i] = c]
    ELSE c

\* str.upper() of an ASCII string
RECURSIVE Upper(_)
Upper(str) ==
    IF str = "" THEN ""
    ELSE UpperChar(SubSeq(str, 1, 1)) \o Upper(SubSeq(str, 2, Len(str)))

NumericKeys ==
    {"current_price", "market_cap", "market_cap_rank", "price_change_24h",
     "price_change_percentage_24h", "total_volume"}

CoinKeys == {"id", "symbol", "name"} \cup NumericKeys

RawCoin(id, symbol, name, price, cap, rank, chg, pct, vol) ==
    [id |-> id, symbol |-> symbol, name |-> name, current_price |-> price,
     market_cap |-> cap, market_cap_rank |-> rank, price_change_24h |-> chg,
     price_change_percentage_24h |-> pct, total_volume |-> vol]

\* the coin as the API sends it without one of its keys
Without(coin, key) == [k \in DOMAIN coin \ {key} |-> coin[k]]

RawBtc == RawCoin("bitcoin", "btc", "Bitcoin", 50000000, 950000, 1, 1200000, 2500, 25000000)

RawCoins ==
    {RawBtc,
     [RawBtc EXCEPT !.current_price = None],
     RawCoin("ethereum", "eth", "Ethereum", None, None, None, None, None, None),
     Without(RawBtc, "market_cap_rank"),
     Without(RawBtc, "total_volume")}

\* the decoded body of a 200 response: a list of coins
Bodies == UNION {[1..n -> RawCoins] : n \in 0..MaxCoins}

\* the body of a response that has none the code reads
NoBody == <<>>

Responses ==
    {[status |-> 200, json_ok |-> TRUE, body |-> b] : b \in Bodies}
    \cup {[status |-> 200, json_ok |-> FALSE, body |-> NoBody],
          [status |-> 429, json_ok |-> FALSE, body |-> NoBody],
          [status |-> 500, json_ok |-> FALSE, body |-> NoBody],
          [status |-> 0, json_ok |-> FALSE, body |-> NoBody]}     \* no response: RequestException

\* x or 0
OrZero(x) == IF x = None \/ x = 0 THEN 0 ELSE x

\* fetch_top_cryptocurrencies / fetch_specific_coins begin: _make_request is
\* entered with attempt 0
BeginFetch(op, json_caught) ==
    [pc |-> "request", op |-> op, json_caught |-> json_caught, attempt |-> 0,
     attempts |-> 0, responses |-> <<>>, waits |-> <<>>, request_result |-> "pending",
     data |-> NoBody, status |-> "running", crypto_list |-> <<>>]

\* _make_request returns response.json()
RequestReturns(f, data) ==
    [f EXCEPT !.pc = "build", !.request_result = "json", !.data = data]

\* _make_request returns None
RequestReturnsNone(f) ==
    [f EXCEPT !.pc = "build", !.request_result = "None", !.data = NoBody]

\* time.sleep(seconds) after the current attempt
Sleep(f, seconds) == [f EXCEPT !.waits = Append(@, seconds)]

\* mutant: a rate-limited attempt is repeated without being counted
NextAttemptUncounted(f, response) ==
    IF response.status = 429 /\ f.attempts <= MAX_RETRIES THEN f
    ELSE IF f.attempt + 1 < MAX_RETRIES THEN [f EXCEPT !.attempt = @ + 1]
    ELSE RequestReturnsNone([f EXCEPT !.attempt = @ + 1])

\* the for loop goes to its next attempt, or is exhausted: return None
NextAttempt(f, response) ==
    IF f.attempt + 1 < MAX_RETRIES THEN [f EXCEPT !.attempt = @ + 1]
    ELSE RequestReturnsNone([f EXCEPT !.attempt = @ + 1])

\* except requests.exceptions.RequestException: sleep(retry_delay) unless last
OnRequestException(f, response) ==
    NextAttempt(Sleep(f, IF f.attempt < MAX_RETRIES - 1 THEN RETRY_DELAY ELSE 0), response)

\* one pass of the loop body of _make_request, the HTTP attempt ending in response
MakeRequestStep(f0, response) ==
    LET f == [f0 EXCEPT !.attempts = @ + 1, !.responses = Append(@, response)]
    IN  IF response.status = 0 THEN OnRequestException(f, response)
        ELSE IF response.status = 200
        THEN IF response.json_ok THEN RequestReturns(Sleep(f, 0), response.body)
             ELSE IF f.json_caught THEN OnRequestException(f, response)
             ELSE [Sleep(f, 0) EXCEPT !.pc = "done", !.status = "raised"]
        ELSE IF response.status = 429
        THEN NextAttempt(Sleep(f, RETRY_DELAY * 2^f.attempt), response)
        ELSE NextAttempt(Sleep(f, 0), response)

\* CryptoData(...) of one coin inside try / except (KeyError, TypeError, ValueError)
ParseCoin(coin, timestamp) ==
    IF CoinKeys \subseteq DOMAIN coin
    THEN <<CryptoData(coin.id, Upper(coin.symbol), coin.name,
                      OrZero(coin.current_price), OrZero(coin.market_cap),
                      OrZero(coin.market_cap_rank), OrZero(coin.price_change_24h),
                      OrZero(coin.price_change_percentage_24h),
                      OrZero(coin.total_volume), timestamp)>>
    ELSE <<>>                                        \* KeyError: warning, continue

\* the loop over data with the one timestamp taken before it
RECURSIVE ParseCoins(_, _)
ParseCoins(data, timestamp) ==
    IF data = <<>> THEN <<>>
    ELSE ParseCoin(Head(data), timestamp) \o ParseCoins(Tail(data), timestamp)

FetchReturns(f, crypto_list) ==
    [f EXCEPT !.pc = "done", !.status = "returned", !.crypto_list = crypto_list]

\* fetch_top_cryptocurrencies() is called
CallFetchTop ==
    /\ fetch.pc = "idle"
    /\ now < MaxFetches
    /\ \E json_caught \in BOOLEAN : fetch' = BeginFetch("fetch_top_cryptocurrencies", json_caught)
    /\ UNCHANGED <<crypto_data, extracted, collection, last, alive, schedVars>>

\* fetch_specific_coins(coin_ids) is called: no request for an empty list
CallFetchSpecific ==
    /\ fetch.pc = "idle"
    /\ now < MaxFetches
    /\ \E coin_ids \in {<<>>, <<"bitcoin">>, <<"bitcoin", "ethereum">>}, json_caught \in BOOLEAN :
          fetch' = IF coin_ids = <<>>
                   THEN FetchReturns(BeginFetch("fetch_specific_coins", json_caught), <<>>)
                   ELSE BeginFetch("fetch_specific_coins", json_caught)
    /\ UNCHANGED <<crypto_data, extracted, collection, last, alive, schedVars>>

\* one attempt of _make_request
Attempt ==
    /\ fetch.pc = "request"
    /\ \E response \in Responses : fetch' = MakeRequestStep(fetch, response)
    /\ UNCHANGED <<crypto_data, extracted, collection, last, alive, schedVars>>

\* if not data: return []; otherwise the timestamp and the loop over the coins
BuildRecords ==
    /\ fetch.pc = "build"
    /\ IF fetch.request_result = "None" \/ fetch.data = <<>>
       THEN /\ fetch' = FetchReturns(fetch, <<>>)
            /\ UNCHANGED now
       ELSE /\ now' = now + 1
            /\ fetch' = FetchReturns(fetch, ParseCoins(fetch.data, Stamp(now + 1)))
    /\ UNCHANGED <<crypto_data, extracted, collection, last, alive, scheduler, start_pc, runs>>

\* the caller has taken the outcome of the call
FetchDone ==
    /\ fetch.pc = "done"
    /\ fetch' = IdleFetch
    /\ UNCHANGED <<crypto_data, extracted, collection, last, alive, schedVars>>

NextFetch ==
    \/ CallFetchTop
    \/ CallFetchSpecific
    \/ Attempt
    \/ BuildRecords
    \/ FetchDone

SpecFetch == Init /\ [][NextFetch]_vars

----------------------------------------------------------------------------
(* Reading an extraction: the facts of one type, in output order, and the  *)
(* records that should have produced them, in batch order.                 *)

ExtractReturned == extracted.called /\ ~extracted.raised

FactsOfType(t) == SelectSeq(extracted.facts, LAMBDA f : f.fact_type = t)

IsChangeRec(c) == c.price_change_percentage_24h # 0
IsMarketRec(c) == c.market_cap > 0
IsVolumeRec(c) == c.volume_24h > 0
IsPriceRec(c) == c.current_price >= 0

\* fs[i] was made from rs[i], for every i
SameSource(fs, rs) ==
    /\ Len(fs) = Len(rs)
    /\ \A i \in 1..Len(fs) :
          fs[i].crypto_id = rs[i].id /\ fs[i].timestamp = rs[i].timestamp

NumericFields(c) ==
    {c.current_price, c.market_cap, c.market_cap_rank, c.price_change_24h,
     c.price_change_percentage_24h, c.volume_24h}

IsWellFormed(c) == None \notin NumericFields(c)

\* C6: when extract_facts returns, the change facts are exactly one per record
\* with a non-zero percent change, the market_cap facts one per record with
\* market cap > 0 and the volume facts one per record with volume > 0, in batch
\* order; a change fact says "increased" for a positive and "decreased" for a
\* negative percent change.
C6_EmissionRules ==
    ExtractReturned =>
        LET ch == FactsOfType("change")
            chR == SelectSeq(crypto_data, IsChangeRec)
            mk == FactsOfType("market_cap")
            mkR == SelectSeq(crypto_data, IsMarketRec)
            vo == FactsOfType("volume")
            voR == SelectSeq(crypto_data, IsVolumeRec)
        IN  /\ SameSource(ch, chR)
            /\ \A i \in 1..Len(ch) :
                  /\ ch[i].metadata.change_percentage = chR[i].price_change_percentage_24h
                  /\ LET word == IF chR[i].price_change_percentage_24h > 0
                                 THEN "increased" ELSE "decreased"
                     IN  /\ ch[i].metadata.direction = word
                         /\ Contains(ch[i].content, " has " \o word \o " by ")
            /\ SameSource(mk, mkR)
            /\ \A i \in 1..Len(mk) : mk[i].metadata.market_cap = mkR[i].market_cap
            /\ SameSource(vo, voR)
            /\ \A i \in 1..Len(vo) : vo[i].metadata.volume_24h = voR[i].volume_24h

\* a returned batch of two records: one falling with a market cap and a volume,
\* one with no change, no market cap and no volume
C6_Witness ==
    /\ ExtractReturned
    /\ Len(crypto_data) = 2
    /\ crypto_data[1].price_change_percentage_24h < 0
    /\ crypto_data[1].market_cap > 0 /\ crypto_data[1].volume_24h > 0
    /\ crypto_data[2].price_change_percentage_24h = 0
    /\ crypto_data[2].market_cap <= 0 /\ crypto_data[2].volume_24h = 0
    /\ Len(FactsOfType("change")) = 1
    /\ Len(FactsOfType("market_cap")) = 1
    /\ Len(FactsOfType("volume")) = 1

\* C7 (as the spec states it): when extract_facts returns, the price facts are
\* exactly one per record with price >= 0; a negative price yields none.
C7_PriceIffNonNegative ==
    ExtractReturned =>
        LET pr == FactsOfType("price")
            prR == SelectSeq(crypto_data, IsPriceRec)
        IN  /\ SameSource(pr, prR)
            /\ \A i \in 1..Len(pr) : pr[i].metadata.price = prR[i].current_price

\* C8 (as the spec states it): every fact's id is
\* "{crypto_id}_{fact_type}_{timestamp}" with the fact's own fact_type.
C8_FactIdFormat ==
    ExtractReturned =>
        \A i \in 1..Len(extracted.facts) :
            LET f == extracted.facts[i]
            IN  f.fact_id = f.crypto_id \o "_" \o f.fact_type \o "_" \o f.timestamp

\* C9 (as the spec states it): extract_facts never raises, and every well-formed
\* record of the batch, and no malformed one, contributes its facts (a
\* well-formed record always has a price fact).
C9_ExtractionTotal ==
    extracted.called =>
        /\ ~extracted.raised
        /\ SameSource(FactsOfType("price"), SelectSeq(crypto_data, IsWellFormed))

----------------------------------------------------------------------------
(* Claims about the store and the retriever *)

RetrieveReturned == last.op = "retrieve_facts" /\ last.status = "returned"

\* the raw candidates that pass the threshold, in the order search_facts gave
Passing ==
    SelectSeq(last.raw_results,
              LAMBDA r : DistScale - r.distance >= last.relevance_threshold)

\* C1: a result of retrieve_facts(query, max_facts=k, relevance_threshold=t)
\* holds at most k facts, each a candidate of the index query whose similarity,
\* 1 - its distance, is at least t.
C1_AtMostKAboveThreshold ==
    RetrieveReturned =>
        /\ Len(last.result.facts) <= last.max_facts
        /\ \A i \in 1..Len(last.result.facts) :
              LET f == last.result.facts[i]
              IN  /\ f.similarity >= last.relevance_threshold
                  /\ \E j \in 1..Len(last.raw_results) :
                        /\ last.raw_results[j].id = f.id
                        /\ f.similarity = DistScale - last.raw_results[j].distance

\* more candidates pass the threshold than max_facts, and one does not pass
C1_Witness ==
    /\ RetrieveReturned
    /\ last.max_facts = 2
    /\ Len(last.result.facts) = 2
    /\ Len(Passing) = 3
    /\ Len(last.raw_results) > Len(Passing)

\* C2: the facts of a result are in non-increasing order of similarity, and
\* they are the first max_facts of the candidates that pass the threshold, in
\* the order search_facts returned them.
C2_OrderPreserved ==
    RetrieveReturned =>
        LET facts == last.result.facts
        IN  /\ \A i, j \in 1..Len(facts) : i < j => facts[i].similarity >= facts[j].similarity
            /\ Len(facts) = Min(last.max_facts, Len(Passing))
            /\ \A i \in 1..Len(facts) :
                  /\ facts[i].id = Passing[i].id
                  /\ facts[i].distance = Passing[i].distance
                  /\ facts[i].content = Passing[i].content

\* two facts of different similarity returned, a third candidate filtered out
C2_Witness ==
    /\ RetrieveReturned
    /\ Len(last.result.facts) = 2
    /\ last.result.facts[1].similarity > last.result.facts[2].similarity
    /\ Len(last.raw_results) > Len(Passing)

AddCalled == last.op = "add_facts"

FactIds(facts) == {facts[i].fact_id : i \in 1..Len(facts)}

\* C3 (as the spec states it): add_facts with facts of distinct ids, the backend
\* working, is never refused, and afterwards every fact of the call is stored
\* under its id with the content just added, also when that id was stored before;
\* the collection holds one entry per id.
C3_AddReplaces ==
    (/\ AddCalled
     /\ last.backend.embed_ok /\ last.backend.insert_ok
     /\ ~HasDuplicates([i \in 1..Len(last.facts) |-> last.facts[i].fact_id]))
    => /\ last.status = "returned"
       /\ DOMAIN collection = DOMAIN last.stored_before \cup FactIds(last.facts)
       /\ \A i \in 1..Len(last.facts) :
             collection[last.facts[i].fact_id].document = last.facts[i].content

\* C4: retrieve_facts asks the index for exactly 2 * max_facts candidates;
\* total_found is the number of candidates the query returned, before filtering
\* and truncation, so len(facts) <= total_found <= 2 * max_facts.
C4_OverFetchAndTotal ==
    last.op = "retrieve_facts" =>
        /\ last.n_results = 2 * last.max_facts
        /\ last.status = "returned" =>
              /\ last.result.total_found = Len(last.raw_results)
              /\ Len(last.result.facts) <= last.result.total_found
              /\ last.result.total_found <= 2 * last.max_facts

\* the query returned all 2 * max_facts candidates and fewer facts survived
C4_Witness ==
    /\ RetrieveReturned
    /\ last.max_facts = 2
    /\ last.result.total_found = 4
    /\ Len(last.result.facts) = 1

\* C5: get_context_string returns the fixed sentence for a result without
\* facts; for n >= 1 facts it returns, joined by newlines, the header line and
\* then per fact i = 1..n the line "i. content" and the line
\* "   (Source: symbol, Time: first 19 characters of the timestamp)".
C5_ContextLayout ==
    last.op = "get_context_string" =>
        LET facts == last.retrieval_result.facts
            n == Len(facts)
            parts == last.context_parts
        IN  IF n = 0
            THEN last.context = "No relevant information found in the knowledge base."
            ELSE /\ last.context = Join("\n", parts)
                 /\ Len(parts) = 1 + 2 * n
                 /\ parts[1] = "Based on the latest cryptocurrency data, here are the relevant facts:"
                 /\ \A i \in 1..n :
                       /\ parts[2 * i] = ToString(i) \o ". " \o facts[i].content
                       /\ parts[2 * i + 1] =
                             "   (Source: " \o facts[i].metadata.crypto_symbol \o ", Time: "
                             \o SubSeq(facts[i].metadata.timestamp, 1, 19) \o ")"
                       /\ Len(facts[i].metadata.timestamp) > 19

\* a context built from two facts
C5_Witness ==
    /\ last.op = "get_context_string"
    /\ Len(last.retrieval_result.facts) = 2
    /\ Len(last.context_parts) = 5
    /\ last.context_parts[5] = "   (Source: BTC, Time: 2026-01-01T00:05:00)"

\* C10: add_facts raises and returns no count when the embedding call or the
\* insert fails; it returns a count only after the insert completed (the facts
\* are then stored), and the count is the number of facts passed; search_facts
\* raises when its embedding or index query fails.
C10_FailuresPropagate ==
    /\ AddCalled =>
          /\ (last.facts # <<>> /\ (~last.backend.embed_ok \/ ~last.backend.insert_ok))
                => (last.status = "raised" /\ last.count = None)
          /\ last.status = "returned" =>
                /\ last.count = Len(last.facts)
                /\ last.facts # <<>> =>
                      (last.inserted /\ FactIds(last.facts) \subseteq DOMAIN collection)
    /\ (last.op = "search_facts" /\ last.backend_failed) => last.status = "raised"

\* an add_facts call whose insert failed after the embeddings were made
C10_Witness ==
    /\ AddCalled
    /\ Len(last.facts) = 2
    /\ last.backend.embed_ok /\ ~last.backend.insert_ok
    /\ last.status = "raised"
    /\ collection = last.stored_before

\* C11 (as the spec states it): when the index query fails inside
\* retrieve_facts, the caller gets a RetrievalResult with no facts, not an
\* exception.
C11_RetrievalDegrades ==
    (last.op = "retrieve_facts" /\ last.backend_failed)
        => (last.status = "returned" /\ last.result.facts = <<>>)

\* C12 (as the spec states it): a relevance_threshold above 1 or below 0 is
\* rejected with an error, not used to filter.
C12_ThresholdRejected ==
    (/\ last.op = "retrieve_facts"
     /\ (last.relevance_threshold > DistScale \/ last.relevance_threshold < 0))
        => last.status = "raised"

FilterGiven(crypto_filter) == crypto_filter \notin {NoneStr, ""}

\* C13: search_facts returns at most n_results candidates, each the document
\* and metadata of a stored fact, and with an entity filter s each has
\* crypto_symbol = s; so has every fact retrieve_facts returns under filter s.
C13_FilterRespected ==
    /\ (last.op = "search_facts" /\ last.status = "returned") =>
          /\ Len(last.results) <= last.n_results
          /\ \A i \in 1..Len(last.results) :
                LET r == last.results[i]
                IN  /\ r.id \in DOMAIN collection
                    /\ r.content = collection[r.id].document
                    /\ r.metadata = collection[r.id].metadata
                    /\ FilterGiven(last.crypto_filter)
                          => r.metadata.crypto_symbol = last.crypto_filter
    /\ RetrieveReturned =>
          \A i \in 1..Len(last.result.facts) :
              LET f == last.result.facts[i]
              IN  /\ f.id \in DOMAIN collection
                  /\ FilterGiven(last.crypto_filter)
                        => f.metadata.crypto_symbol = last.crypto_filter

\* a filtered retrieval that returns BTC facts while an ETH fact is stored
C13_Witness ==
    /\ RetrieveReturned
    /\ last.crypto_filter = "BTC"
    /\ Len(last.result.facts) = 2
    /\ \E id \in DOMAIN collection : collection[id].metadata.crypto_symbol = "ETH"

\* C19: no two facts of a RetrievalResult have the same id.
C19_FactsDistinct ==
    RetrieveReturned =>
        \A i, j \in 1..Len(last.result.facts) :
            i # j => last.result.facts[i].id # last.result.facts[j].id

\* two facts returned from a collection filled by more than one add_facts call
C19_Witness ==
    /\ RetrieveReturned
    /\ Len(last.result.facts) = 2
    /\ last.result.facts[1].metadata.timestamp # last.result.facts[2].metadata.timestamp
    /\ Cardinality(DOMAIN collection) >= 4

Symbols(coll) == {coll[id].metadata.crypto_symbol : id \in DOMAIN coll}

FactTypes(coll) == {coll[id].metadata.fact_type : id \in DOMAIN coll}

\* C20 (as the spec states it): get_collection_stats reports the number of
\* stored facts, the number of distinct symbols and the set of distinct fact
\* types among all stored facts, all three also for an empty collection.
C20_StatsComplete ==
    (last.op = "get_collection_stats" /\ last.status = "returned") =>
        /\ last.stats.total_facts = Cardinality(DOMAIN collection)
        /\ {"unique_cryptos", "fact_types"} \subseteq DOMAIN last.stats
        /\ last.stats.unique_cryptos = Cardinality(Symbols(collection))
        /\ last.stats.fact_types = FactTypes(collection)

ReadOnlyOps == {"search_facts", "retrieve_facts", "get_context_string", "get_collection_stats"}

\* an empty, existing collection: its count is 0, every query that answers
\* returns no candidates, and add_facts of facts with distinct ids stores them
EmptyAndUsable(coll, live) ==
    /\ live
    /\ coll = EmptyCollection
    /\ \A b \in StatsBackends(coll, SampleLimit) :
          ~b.fail => get_collection_stats(coll, b).stats.total_facts = 0
    /\ \A n \in 0..OverFetch(MaxK), f \in Filters :
          \A b \in ChromaQuery(coll, n, WhereClause(f)) :
              ~b.fail => search_facts(coll, "q", n, f, b).results = <<>>
    /\ \A facts \in FactBatches, b \in AddBackends :
          (b.embed_ok /\ b.insert_ok /\ ~HasDuplicates([i \in 1..Len(facts) |-> facts[i].fact_id]))
              => LET r == add_facts(coll, facts, b)
                 IN  /\ r.status = "returned"
                     /\ DOMAIN r.coll = {facts[i].fact_id : i \in 1..Len(facts)}

\* C14: every step other than clear_collection keeps every stored fact id,
\* the querying operations leave the collection as it is, and a
\* clear_collection that returns leaves an existing, empty collection that
\* counts 0, answers every query with no candidates and accepts add_facts.
C14_StoredUntilClear ==
    [][/\ last'.op # "clear_collection" => DOMAIN collection \subseteq DOMAIN collection'
       /\ last'.op \in ReadOnlyOps => (collection' = collection /\ alive' = alive)
       /\ (last'.op = "clear_collection" /\ last'.status = "returned")
             => EmptyAndUsable(collection', alive')]_vars

\* a clear_collection that returned after facts had been stored
C14_Witness ==
    /\ last.op = "clear_collection"
    /\ last.status = "returned"
    /\ Cardinality(DOMAIN last.stored_before) >= 2
    /\ collection = EmptyCollection
    /\ alive

NamesOf(symbol) ==
    {crypto_mapping[i][1] : i \in {j \in 1..Len(crypto_mapping) : crypto_mapping[j][2] = symbol}}

AllSymbols == {crypto_mapping[i][2] : i \in 1..Len(crypto_mapping)}

KeywordsOf(i) == {intent_keywords[i][2][k] : k \in 1..Len(intent_keywords[i][2])}

AnalyzeReturned == last.op = "analyze_query_intent"

SampleSpellings ==
    {"Compare Bitcoin and Ethereum market caps",
     "compare bitcoin and ethereum market caps",
     "COMPARE BITCOIN AND ETHEREUM MARKET CAPS"}

\* C18: a symbol is among the returned cryptos iff one of its names occurs in
\* the lower-cased query, an intent is among the returned intents (once) iff
\* one of its keywords occurs, is_comparison iff one of compare / vs / versus /
\* between occurs, is_general iff no crypto is returned; queries that differ
\* only in letter case get the same result; and the sample query "Compare
\* Bitcoin and Ethereum market caps" gives {BTC, ETH}, market_cap, a
\* comparison, not general.
C18_IntentBySubstring ==
    AnalyzeReturned =>
        LET r == last.result
            q == Lower(last.query)
        IN  /\ \A symbol \in AllSymbols \cup r.cryptos :
                  symbol \in r.cryptos <=> \E name \in NamesOf(symbol) : Contains(q, name)
            /\ \A i \in 1..Len(intent_keywords) :
                  (\E k \in 1..Len(r.intents) : r.intents[k] = intent_keywords[i][1])
                      <=> \E keyword \in KeywordsOf(i) : Contains(q, keyword)
            /\ \A k \in 1..Len(r.intents) :
                  /\ \E i \in 1..Len(intent_keywords) : r.intents[k] = intent_keywords[i][1]
                  /\ \A k2 \in 1..Len(r.intents) : r.intents[k2] = r.intents[k] => k2 = k
            /\ r.is_comparison <=> \E w \in {"compare", "vs", "versus", "between"} : Contains(q, w)
            /\ r.is_general <=> r.cryptos = {}
            /\ \A q2 \in IntentQueries : Lower(q2) = q => analyze_query_intent(q2) = r
            /\ last.query \in SampleSpellings =>
                  /\ r.cryptos = {"BTC", "ETH"}
                  /\ r.intents = <<"market_cap">>
                  /\ r.is_comparison
                  /\ ~r.is_general
            /\ last.query = "Something about Canada" =>
                  r = [cryptos |-> {"ETH", "ADA"}, intents |-> <<>>,
                       is_comparison |-> FALSE, is_general |-> FALSE]
            /\ last.query = "How's the weather" =>
                  r = [cryptos |-> {}, intents |-> <<>>,
                       is_comparison |-> FALSE, is_general |-> TRUE]

\* the sample query in its mixed-case spelling, analysed
C18_Witness ==
    /\ AnalyzeReturned
    /\ last.query = "Compare Bitcoin and Ethereum market caps"
    /\ last.query # Lower(last.query)
    /\ last.result.cryptos = {"BTC", "ETH"}
    /\ last.result.is_comparison

\* the names of the records of the batch that fact f was made from: a fact
\* carries the id, the symbol and the timestamp of its record
SourceNames(f) ==
    {c.name : c \in {r \in Range(crypto_data) :
                        /\ r.id = f.crypto_id
                        /\ r.symbol = f.crypto_symbol
                        /\ r.timestamp = f.timestamp}}

SameKey(f, g) ==
    /\ f.fact_type = g.fact_type
    /\ f.crypto_symbol = g.crypto_symbol
    /\ f.metadata = g.metadata

\* C17 (as the spec states it): two facts of an extraction with equal
\* fact_type, equal crypto_symbol and equal metadata have equal content.
C17_ContentFromMetadata ==
    ExtractReturned =>
        \A i, j \in 1..Len(extracted.facts) :
            SameKey(extracted.facts[i], extracted.facts[j])
                => extracted.facts[i].content = extracted.facts[j].content

\* C17 (amended): two facts of an extraction with equal fact_type, equal
\* crypto_symbol and equal metadata, made from records with equal name, have
\* equal content.
C17_ContentFromNameAndMetadata ==
    ExtractReturned =>
        \A i, j \in 1..Len(extracted.facts) :
            LET f == extracted.facts[i]
                g == extracted.facts[j]
            IN  (SameKey(f, g) /\ SourceNames(f) = SourceNames(g)) => f.content = g.content

\* two snapshots of one coin at the same price: two price facts, different
\* ids, equal metadata and equal content
C17_Witness ==
    /\ ExtractReturned
    /\ \E i, j \in 1..Len(extracted.facts) :
          /\ extracted.facts[i].fact_id # extracted.facts[j].fact_id
          /\ extracted.facts[i].crypto_id = extracted.facts[j].crypto_id
          /\ SameKey(extracted.facts[i], extracted.facts[j])
          /\ extracted.facts[i].content = extracted.facts[j].content

InProgress(t) == runs[t].pc # "idle"

\* C15 (as the spec states it): at no time are two executions of
\* update_knowledge_base in progress, the initial update of start() included.
C15_SingleFlight == ~(InProgress("main") /\ InProgress("job"))

\* the run of thread t ends in this step
RunEnds(t) == runs[t].pc # "idle" /\ runs'[t].pc = "idle"

\* C16: a run of update_knowledge_base always ends by returning (no data,
\* error logged, or completed), never by raising; it calls add_facts at most
\* once, and not at all when the fetch gave no data or the fetch or the
\* extraction raised; only a run's add_facts call changes the index; the end
\* of a run, failed or not, leaves the scheduler and its job as they are, so
\* that the job is ready for the next tick.
C16_FailureWaitsForTick ==
    [][/\ \A t \in Threads :
            RunEnds(t) =>
                /\ runs'[t].result \in {"completed", "no_data", "error_logged"}
                /\ runs'[t].add_calls <= 1
                /\ runs[t].pc \in {"fetch", "extract"}
                      => (runs'[t].add_calls = 0 /\ collection' = collection)
                /\ runs'[t].result = "no_data" => runs[t].pc = "fetch"
                /\ runs'[t].result = "completed" => runs'[t].add_calls = 1
                /\ scheduler' = scheduler
                /\ start_pc' # "raised"
                /\ (t = "job" /\ scheduler.running)
                      => (scheduler'.running /\ JobId \in scheduler'.jobs)
       /\ collection' # collection
            => \E t \in Threads :
                  /\ runs[t].pc = "store"
                  /\ runs'[t].add_calls = runs[t].add_calls + 1
                  /\ runs'[t].result = "completed"]_vars

\* the scheduler has started a new run of the job after a run that failed
C16_Witness ==
    /\ InProgress("job")
    /\ runs["job"].prev_result \in {"error_logged", "no_data"}
    /\ scheduler.running

NoDistance(i) == last.raw_results[i].distance = None

\* C23 (as the spec states it): when search_facts hands back a candidate
\* whose distance is None, retrieve_facts returns, and that candidate counts
\* as similarity 0: it is among the facts only if relevance_threshold <= 0,
\* and it is when relevance_threshold <= 0 and max_facts leaves room for
\* every candidate.
C23_MissingDistanceIsOne ==
    (/\ last.op = "retrieve_facts"
     /\ ~last.backend_failed
     /\ \E i \in 1..Len(last.raw_results) : NoDistance(i))
        => /\ last.status = "returned"
           /\ \A i \in 1..Len(last.raw_results) :
                 NoDistance(i) =>
                     LET included == \E k \in 1..Len(last.result.facts) :
                                        last.result.facts[k].id = last.raw_results[i].id
                     IN  /\ included => last.relevance_threshold <= 0
                         /\ (/\ last.relevance_threshold <= 0
                              /\ last.max_facts >= Len(last.raw_results)) => included

\* _make_request has been entered / is over (returned or raised)
RequestMade == fetch.pc # "idle" /\ fetch.attempts > 0
RequestOver == RequestMade /\ fetch.pc # "request"

Is200(i) == fetch.responses[i].status = 200
IsJson200(i) == Is200(i) /\ fetch.responses[i].json_ok

\* what the claim says of attempts, waits and the empty result, Ok(i) telling
\* which attempts count as answered
RequestContract(Ok(_)) ==
    RequestMade =>
        LET n == fetch.attempts
        IN  /\ n <= MAX_RETRIES
            /\ Len(fetch.responses) = n
            /\ fetch.pc = "request" => n < MAX_RETRIES
            /\ \A i \in 1..n : Ok(i) =>
                  /\ i = n
                  /\ fetch.pc # "request"
                  /\ fetch.request_result = "json"
                  /\ fetch.data = fetch.responses[i].body
            /\ (RequestOver /\ fetch.status # "raised" /\ \A i \in 1..n : ~Ok(i)) =>
                  /\ n = MAX_RETRIES
                  /\ fetch.request_result = "None"
            /\ \A i \in 1..n :
                  fetch.responses[i].status = 429 => fetch.waits[i] = RETRY_DELAY * 2^(i - 1)
            /\ (/\ fetch.pc = "done"
                 /\ \/ fetch.request_result = "None"
                    \/ (fetch.request_result = "json" /\ fetch.data = <<>>))
                  => (fetch.status = "returned" /\ fetch.crypto_list = <<>>)

\* C22 (as the spec states it): _make_request makes at most MAX_RETRIES
\* attempts, returns the body of the first response with status 200 without a
\* further attempt, returns None after exactly MAX_RETRIES attempts when no
\* attempt gave status 200, waits RETRY_DELAY * 2^i after a 429 on attempt i,
\* and a None or empty result makes the fetch return an empty list.
C22_FirstOkOrNone == RequestContract(Is200)

\* C22 (amended): the same with "a response with status 200 whose body is
\* JSON" in the place of "a response with status 200"; a 200 response whose
\* body is not JSON counts as a failed attempt or makes the call raise, and
\* nothing else makes it raise.
C22_FirstJsonOkOrNone ==
    /\ RequestContract(IsJson200)
    /\ fetch.pc # "idle" =>
          (fetch.status = "raised" <=>
              /\ fetch.attempts > 0
              /\ Is200(fetch.attempts)
              /\ ~fetch.responses[fetch.attempts].json_ok
              /\ ~fetch.json_caught)

\* a rate-limited attempt, a failed one, then a 200 response that is returned
C22_Witness ==
    /\ RequestOver
    /\ fetch.attempts = MAX_RETRIES
    /\ fetch.responses[1].status = 429
    /\ ~Is200(2)
    /\ IsJson200(3)
    /\ fetch.request_result = "json"
    /\ fetch.data # <<>>

FetchReturned == fetch.pc = "done" /\ fetch.status = "returned"

\* the field of a CryptoData that is built from key k of a coin
Field(c, k) == IF k = "total_volume" THEN c.volume_24h ELSE c[k]

Lacks(coin, k) == k \notin DOMAIN coin \/ coin[k] = None

\* C21 (as the spec states it): for every coin of the response in which a
\* numeric key is missing or null, the fetch returns a CryptoData of that coin
\* with 0 in that field; no returned CryptoData holds None; and all records
\* of one fetch carry the same timestamp.
C21_NullOrMissingIsZero ==
    FetchReturned =>
        /\ \A i \in 1..Len(fetch.data) : \A k \in NumericKeys :
              Lacks(fetch.data[i], k) =>
                  \E j \in 1..Len(fetch.crypto_list) :
                      /\ "id" \in DOMAIN fetch.data[i]
                      /\ fetch.crypto_list[j].id = fetch.data[i].id
                      /\ Field(fetch.crypto_list[j], k) = 0
        /\ \A j \in 1..Len(fetch.crypto_list) :
              /\ None \notin NumericFields(fetch.crypto_list[j])
              /\ fetch.crypto_list[j].timestamp = fetch.crypto_list[1].timestamp

====
